---- MODULE Spec2Model ----
(***************************************************************************)
(* The tag extension of the bot (exts/tags.py): the slash commands view,   *)
(* info, list, create, edit, delete, the modal_completion listener with    *)
(* add_tag and edit_tag, and the tag_name autocomplete, over the Tag       *)
(* collection.                                                             *)
(*                                                                         *)
(* Strings that the code inspects (tag names, custom ids, object-id        *)
(* strings) are sequences of one-character strings, so that lower(),       *)
(* startswith(), removeprefix() and the substring test are computed.       *)
(* Descriptions are opaque strings.  An Optional value is a sequence of    *)
(* length 0 (None) or 1.                                                   *)
(*                                                                         *)
(* A handler that reads the collection and then writes it takes two steps, *)
(* one for each await of the database, and other handlers may run between  *)
(* them.  A handler with a single await of the database takes one step.    *)
(***************************************************************************)
EXTENDS Integers, Sequences, FiniteSets, Bags, TLC

VARIABLES store, nextId, now, last, edited, tasks

vars == <<store, nextId, now, last, edited, tasks>>

(***************************************************************************)
(* Bounds of the model.                                                    *)
(***************************************************************************)
MaxIds == 2
MaxTime == 1
IdWidth == 2
NumTasks == 2
MaxQueryTags == 27
MaxOffset == 3

(***************************************************************************)
(* Program constants.                                                      *)
(***************************************************************************)
ChunkSize == 10
AutocompleteLimit == 25

None == <<>>
Some(x) == <<x>>

Min(a, b) == IF a < b THEN a ELSE b

(***************************************************************************)
(* Inputs: names over a three-letter alphabet with one upper-case letter,  *)
(* two descriptions, two users.                                            *)
(***************************************************************************)
Alphabet == <<"a", "A", "b">>

RECURSIVE NameOf(_)
NameOf(i) ==
    IF i = 0 THEN <<>>
    ELSE NameOf((i - 1) \div 3) \o <<Alphabet[((i - 1) % 3) + 1]>>

Names == {<<"a">>, <<"A">>}
Queries == {<<>>, <<"a">>, <<"A">>, <<"b">>, <<"a", "b">>, <<"B">>, <<"b", "a">>}
FewQueries == {<<>>, <<"a">>}
Descriptions == {"d1", "d2"}
Users == {7, 12}

(***************************************************************************)
(* Python string operations.                                               *)
(***************************************************************************)
DigitChar == <<"0", "1", "2", "3", "4", "5", "6", "7", "8", "9">>

\* str(n) of a non-negative int
RECURSIVE str(_)
str(n) ==
    IF n < 10 THEN <<DigitChar[n + 1]>>
    ELSE str(n \div 10) \o <<DigitChar[(n % 10) + 1]>>

\* variant of lower: no case folding
lower_identity(s) == s

\* one character of str.lower()
LowerChar(c) ==
    CASE c = "A" -> "a"
      [] c = "B" -> "b"
      [] OTHER -> c

lower(s) == [i \in 1..Len(s) |-> LowerChar(s[i])]

\* Python's  q in s  on strings
contains(s, q) ==
    \E i \in 0..(Len(s) - Len(q)) : SubSeq(s, i + 1, i + Len(q)) = q

startswith(s, p) ==
    /\ Len(p) <= Len(s)
    /\ SubSeq(s, 1, Len(p)) = p

removeprefix(s, p) ==
    IF startswith(s, p) THEN SubSeq(s, Len(p) + 1, Len(s)) ELSE s

\* variant of Slice: the slice ends one element early
Slice_short(s, x, w) == SubSeq(s, x + 1, Min(x + w - 1, Len(s)))

\* tag_list[x : x + w], x counted from 0
Slice(s, x, w) == SubSeq(s, x + 1, Min(x + w, Len(s)))

\* list(range(lo, hi, step))
RECURSIVE Range(_, _, _)
Range(lo, hi, step) ==
    IF lo >= hi THEN <<>> ELSE <<lo>> \o Range(lo + step, hi, step)

(***************************************************************************)
(* Custom ids of the modals.                                               *)
(***************************************************************************)
AstroNewTag == <<"a","s","t","r","o","_","n","e","w","_","t","a","g">>
AstroEditTag == <<"a","s","t","r","o","_","e","d","i","t","_","t","a","g">>
AstroEditTagPrefix == AstroEditTag \o <<"_">>
OtherModal == <<"o","t","h","e","r">>

\* str(tag.id): the fixed-width string of an object id
RECURSIVE Pad(_, _)
Pad(s, w) == IF Len(s) >= w THEN s ELSE Pad(<<"0">> \o s, w)

ObjectIdStr(id) == Pad(str(id), IdWidth)

IsDigit(c) == \E d \in 1..10 : DigitChar[d] = c

DigitValue(c) == (CHOOSE d \in 1..10 : DigitChar[d] = c) - 1

RECURSIVE ParseDigits(_)
ParseDigits(s) ==
    IF s = <<>> THEN 0
    ELSE 10 * ParseDigits(SubSeq(s, 1, Len(s) - 1)) + DigitValue(s[Len(s)])

\* PydanticObjectId(s): the id, or None when s is no object-id string
\* (the constructor raises InvalidId)
PydanticObjectId(s) ==
    IF Len(s) = IdWidth /\ \A i \in 1..Len(s) : IsDigit(s[i])
    THEN Some(ParseDigits(s))
    ELSE None

(***************************************************************************)
(* The Tag collection: documents in insertion order.                       *)
(***************************************************************************)
\* variant of UniqueNameIndex: a collection without the constraint
NoUniqueNameIndex == FALSE

\* the storage engine's uniqueness constraint on name, declared with the Tag
\* document (common/models.py); a write that would give two documents the same
\* name is refused with DuplicateKeyError
UniqueNameIndex == TRUE

NewTag(id, name, author_id, description, created_at) ==
    [id |-> id, name |-> name, author_id |-> author_id,
     description |-> description, created_at |-> created_at,
     last_edited_at |-> None]

\* Tag.find_all().to_list()
find_all == store

\* Tag.find_one(Tag.name == tag_name): the first match, or None
find_one(tag_name) ==
    IF \E i \in 1..Len(store) : store[i].name = tag_name
    THEN Some(store[CHOOSE i \in 1..Len(store) :
                     /\ store[i].name = tag_name
                     /\ \A j \in 1..(i - 1) : store[j].name # tag_name])
    ELSE None

\* Tag.get(id)
get(id) ==
    IF \E i \in 1..Len(store) : store[i].id = id
    THEN Some(store[CHOOSE i \in 1..Len(store) : store[i].id = id])
    ELSE None

\* whether the storage engine accepts a write of tag
Accepts(tag) ==
    UniqueNameIndex =>
        \A i \in 1..Len(store) : store[i].id # tag.id => store[i].name # tag.name

\* tag.insert()
insert(tag) == Append(store, tag)

\* tag.save(): the document with that id is replaced, and a document whose id
\* is no longer in the collection is inserted
save(tag) ==
    IF \E i \in 1..Len(store) : store[i].id = tag.id
    THEN [i \in 1..Len(store) |-> IF store[i].id = tag.id THEN tag ELSE store[i]]
    ELSE Append(store, tag)

\* tag.delete()
remove(tag) == SelectSeq(store, LAMBDA t : t.id # tag.id)

(***************************************************************************)
(* What a handler answered: the operation, the name it was about, the      *)
(* outcome and the content sent.                                           *)
(***************************************************************************)
Reply(op, name, outcome, out) ==
    [op |-> op, name |-> name, outcome |-> outcome, out |-> out]

\* a step in which a handler suspends without having answered
NoReply == Reply("await", None, "await", None)

\* datetime.datetime.now() inside a handler that runs at time t
datetime_now(t) == t

(***************************************************************************)
(* The handlers are coroutines: at an await of the database the event loop *)
(* may run other handlers.  tasks is the bag of the handlers suspended     *)
(* between their read and their write, each a frame with the locals its    *)
(* write uses.                                                             *)
(***************************************************************************)
\* the handler with frame f has answered, or failed, and is gone
Return(f) == tasks (-) SetToBag({f})

\* a handler suspends with these locals
Suspend(frame) == tasks (+) SetToBag({frame})

\* the suspended handlers that are at pc
At(pc) == {f \in BagToSet(tasks) : f.pc = pc}

\* how many handlers are suspended
Suspensions == BagCardinality(tasks)

\* how many create submissions are suspended before their insert
Inserting == BagCardinality([f \in At("insert") |-> tasks[f]])

(***************************************************************************)
(* The commands.  ctx of a modal completion is                             *)
(* [custom_id, responses |-> [tag_name, tag_description], author].         *)
(***************************************************************************)
\* variant of view_reply: the query lost its filter on the name
view_reply_unfiltered(tag_name) ==
    IF store # <<>> THEN <<"ok", store[1].description>> ELSE <<"NotFound", None>>

\* what view answers: the outcome and the content sent
view_reply(tag_name) ==
    LET tag == find_one(tag_name) IN
    IF tag # None THEN <<"ok", tag[1].description>> ELSE <<"NotFound", None>>

view(tag_name) ==
    /\ last' = Reply("view", tag_name, view_reply(tag_name)[1], view_reply(tag_name)[2])
    /\ UNCHANGED <<store, nextId, now, edited, tasks>>

info(tag_name) ==
    LET tag == find_one(tag_name) IN
    /\ last' = IF tag = None
                THEN Reply("info", tag_name, "NotFound", None)
                ELSE Reply("info", tag_name, "ok",
                           [title |-> tag[1].name,
                            author |-> tag[1].author_id,
                            created_at |-> tag[1].created_at,
                            last_edited_at |-> tag[1].last_edited_at])
    /\ UNCHANGED <<store, nextId, now, edited, tasks>>

\* the summary of each tag: its number from 1 and its name
TagList(all_tags) == [i \in 1..Len(all_tags) |-> <<(i - 1) + 1, all_tags[i].name>>]

\* chunks of tags, each of which has 10 tags
Chunks(tag_list) ==
    LET xs == Range(0, Len(tag_list), ChunkSize)
    IN  [k \in 1..Len(xs) |-> Slice(tag_list, xs[k], ChunkSize)]

Embeds(chunks) ==
    [k \in 1..Len(chunks) |-> [title |-> "Tag List", names |-> chunks[k]]]

\* how the list command sends its embeds
SendVia(embeds) == IF Len(embeds) = 1 THEN "send" ELSE "paginator"

list ==
    LET embeds == Embeds(Chunks(TagList(find_all))) IN
    /\ last' = Reply("list", None, SendVia(embeds), embeds)
    /\ UNCHANGED <<store, nextId, now, edited, tasks>>

create ==
    /\ last' = Reply("create", None, "modal", AstroNewTag)
    /\ UNCHANGED <<store, nextId, now, edited, tasks>>

\* custom_id of the edit modal of a tag
EditCustomId(tag) == AstroEditTagPrefix \o ObjectIdStr(tag.id)

edit(tag_name) ==
    LET tag == find_one(tag_name) IN
    /\ last' = IF tag = None
                THEN Reply("edit", tag_name, "NotFound", None)
                ELSE Reply("edit", tag_name, "modal",
                           [custom_id |-> EditCustomId(tag[1]),
                            tag_name |-> tag[1].name,
                            tag_description |-> tag[1].description])
    /\ UNCHANGED <<store, nextId, now, edited, tasks>>

\* variant of add_tag_exists: the check is skipped
add_tag_exists_never(tag_name) == FALSE

\* await Tag.find_one(Tag.name == tag_name).exists()
add_tag_exists(tag_name) == find_one(tag_name) # None

\* the document add_tag builds; the collection gives it its id on insertion
add_tag_document(ctx, t) ==
    NewTag(None, ctx.responses.tag_name, str(ctx.author),
           ctx.responses.tag_description, datetime_now(t))

\* add_tag up to its insert: await Tag.find_one(...).exists(), the reply if the
\* name exists, and else the document to insert
add_tag_check(ctx, t) ==
    LET tag_name == ctx.responses.tag_name IN
    /\ IF add_tag_exists(tag_name)
       THEN /\ last' = Reply("add_tag", tag_name, "AlreadyExists", ctx)
            /\ UNCHANGED tasks
       ELSE /\ Suspensions < NumTasks
            /\ nextId + Inserting <= MaxIds
            /\ tasks' = Suspend([pc |-> "insert", ctx |-> ctx,
                                 tag |-> add_tag_document(ctx, t)])
            /\ last' = NoReply
    /\ now' = t
    /\ UNCHANGED <<store, nextId, edited>>

\* add_tag from its insert: await Tag(...).insert(), and the confirmation
add_tag_insert(f) ==
    /\ f \in At("insert")
    /\ LET ctx == f.ctx
           tag_name == ctx.responses.tag_name
           tag == [f.tag EXCEPT !.id = nextId]
       IN  IF Accepts(tag)
           THEN /\ store' = insert(tag)
                /\ nextId' = nextId + 1
                /\ last' = Reply("add_tag", tag_name, "ok", ctx)
           ELSE /\ last' = Reply("add_tag", tag_name, "DuplicateKeyError", ctx)
                /\ UNCHANGED <<store, nextId>>
    /\ tasks' = Return(f)
    /\ UNCHANGED <<now, edited>>

\* variant of edit_tag_document: last_edited_at is not set
edit_tag_document_untouched(tag, ctx, t) ==
    [tag EXCEPT !.name = ctx.responses.tag_name,
                !.description = ctx.responses.tag_description]

\* the document edit_tag saves
edit_tag_document(tag, ctx, t) ==
    [tag EXCEPT !.name = ctx.responses.tag_name,
                !.description = ctx.responses.tag_description,
                !.last_edited_at = Some(datetime_now(t))]

\* variant of edit_tag_lookup: the tag is looked up by the submitted name
edit_tag_lookup_by_name(ctx) == find_one(ctx.responses.tag_name)

\* Tag.get(PydanticObjectId(tag_id)) of edit_tag
edit_tag_lookup(ctx) ==
    LET tag_id == removeprefix(ctx.custom_id, AstroEditTagPrefix) IN
    get(PydanticObjectId(tag_id)[1])

\* edit_tag up to its save: await Tag.get(...), the reply if there is no such
\* tag, and else the fetched document with its fields set
edit_tag_get(ctx, t) ==
    LET tag_id == removeprefix(ctx.custom_id, AstroEditTagPrefix)
        tag_name == ctx.responses.tag_name
    IN
    /\ IF PydanticObjectId(tag_id) = None
       THEN /\ last' = Reply("edit_tag", tag_name, "InvalidId", ctx.custom_id)
            /\ UNCHANGED tasks
       ELSE LET tag == edit_tag_lookup(ctx) IN
            IF tag # None
            THEN /\ Suspensions < NumTasks
                 /\ tasks' = Suspend([pc |-> "save", custom_id |-> ctx.custom_id,
                                      original_name |-> tag[1].name,
                                      tag |-> edit_tag_document(tag[1], ctx, t)])
                 /\ last' = NoReply
            ELSE /\ last' = Reply("edit_tag", tag_name, "NotFound", ctx.custom_id)
                 /\ UNCHANGED tasks
    /\ now' = t
    /\ UNCHANGED <<store, nextId, edited>>

\* edit_tag from its save: await tag.save(), and the reply, which compares the
\* new name with the name that was fetched
edit_tag_save(f) ==
    /\ f \in At("save")
    /\ LET tag == f.tag
           tag_name == tag.name
           original_name == f.original_name
       IN  IF Accepts(tag)
           THEN /\ store' = save(tag)
                /\ edited' = edited \cup {tag.id}
                /\ last' = Reply("edit_tag", tag_name,
                                 IF tag_name = original_name
                                 THEN "ok" ELSE "ok-renamed",
                                 f.custom_id)
           ELSE /\ last' = Reply("edit_tag", tag_name,
                                 "DuplicateKeyError", f.custom_id)
                /\ UNCHANGED <<store, edited>>
    /\ tasks' = Return(f)
    /\ UNCHANGED <<nextId, now>>

\* variant of Dispatch: every custom id that is not an edit's creates
Dispatch_else(custom_id) ==
    IF startswith(custom_id, AstroEditTag) THEN "edit_tag" ELSE "add_tag"

\* which handler the modal_completion listener runs
Dispatch(custom_id) ==
    IF custom_id = AstroNewTag THEN "add_tag"
    ELSE IF startswith(custom_id, AstroEditTag) THEN "edit_tag"
    ELSE "ignore"

\* the listener, up to the first await of the handler it runs
modal_tag_handling(ctx, t) ==
    IF Dispatch(ctx.custom_id) = "add_tag" THEN add_tag_check(ctx, t)
    ELSE IF Dispatch(ctx.custom_id) = "edit_tag" THEN edit_tag_get(ctx, t)
    ELSE /\ last' = Reply("modal", None, "ignored", ctx.custom_id)
         /\ UNCHANGED <<store, nextId, now, edited, tasks>>

\* delete up to tag.delete(): await Tag.find_one(...), and BadArgument if
\* there is no such tag; of the fetched document the delete uses the id
delete_find(tag_name) ==
    LET tag == find_one(tag_name) IN
    /\ IF tag # None
       THEN /\ Suspensions < NumTasks
            /\ tasks' = Suspend([pc |-> "remove", tag_name |-> tag_name,
                                 tag |-> [id |-> tag[1].id]])
            /\ last' = NoReply
       ELSE /\ last' = Reply("delete", tag_name, "NotFound", None)
            /\ UNCHANGED tasks
    /\ UNCHANGED <<store, nextId, now, edited>>

\* delete from tag.delete(): the document with the fetched id is deleted, if
\* it is still there, and the confirmation
delete_remove(f) ==
    /\ f \in At("remove")
    /\ store' = remove(f.tag)
    /\ last' = Reply("delete", f.tag_name, "ok", None)
    /\ tasks' = Return(f)
    /\ UNCHANGED <<nextId, now, edited>>

Choice(tag) == [name |-> tag.name, value |-> tag.name]

\* the loop of tag_name_autocomplete over Tag.find_all(), from document i
RECURSIVE AutocompleteScan(_, _, _)
AutocompleteScan(tag_name, i, choices) ==
    IF i > Len(store) THEN choices
    ELSE LET c2 == IF contains(lower(store[i].name), lower(tag_name))
                   THEN Append(choices, Choice(store[i]))
                   ELSE choices
         IN  IF Len(c2) >= AutocompleteLimit THEN c2
             ELSE AutocompleteScan(tag_name, i + 1, c2)

\* Tag.find_all(limit=25)
find_all_limit(limit) == SubSeq(store, 1, Min(limit, Len(store)))

AutocompleteChoices(tag_name) ==
    IF tag_name = <<>>
    THEN LET tags == find_all_limit(AutocompleteLimit)
         IN  [i \in 1..Len(tags) |-> Choice(tags[i])]
    ELSE AutocompleteScan(tag_name, 1, <<>>)

tag_name_autocomplete(tag_name) ==
    /\ last' = Reply("autocomplete", tag_name, "ok", AutocompleteChoices(tag_name))
    /\ UNCHANGED <<store, nextId, now, edited, tasks>>

(***************************************************************************)
(* The extension serving interactions: the event loop runs one handler     *)
(* until it awaits, then any handler that can go on.                       *)
(***************************************************************************)
Init ==
    /\ store = <<>>
    /\ nextId = 1
    /\ now = 0
    /\ last = Reply("none", None, "none", None)
    /\ edited = {}
    /\ tasks = EmptyBag

Responses(names, descriptions) == [tag_name : names, tag_description : descriptions]

Contexts(custom_ids, names, descriptions, users) ==
    [custom_id : custom_ids, responses : Responses(names, descriptions), author : users]

\* the custom ids a modal completion can carry: that of the create modal, those
\* of the edit modals of the tags created so far, and those of other modals
CustomIds ==
    {AstroNewTag} \cup {AstroEditTagPrefix \o ObjectIdStr(id) : id \in 1..(nextId - 1)}
        \cup {OtherModal, AstroEditTag}

\* a modal completion arrives
ModalCompletion(custom_ids, names, descriptions, users, times) ==
    \E ctx \in Contexts(custom_ids, names, descriptions, users), t \in times :
        modal_tag_handling(ctx, t)

\* one helper submits the modals, within one tick of the clock
Next ==
    \/ \E n \in Names : view(n)
    \/ \E n \in Names : info(n)
    \/ list
    \/ create
    \/ \E n \in Names : edit(n)
    \/ ModalCompletion(CustomIds, Names, Descriptions, {12}, {now})
    \/ \E f \in At("insert") : add_tag_insert(f)
    \/ \E f \in At("save") : edit_tag_save(f)
    \/ \E n \in Names : delete_find(n)
    \/ \E f \in At("remove") : delete_remove(f)
    \/ \E q \in FewQueries : tag_name_autocomplete(q)

Spec == Init /\ [][Next]_vars

\* the writing handlers, every description the same
NextWrites ==
    \/ ModalCompletion(CustomIds, Names, {"d1"}, {12}, {now})
    \/ \E f \in At("insert") : add_tag_insert(f)
    \/ \E f \in At("save") : edit_tag_save(f)
    \/ \E n \in Names : delete_find(n)
    \/ \E f \in At("remove") : delete_remove(f)

SpecWrites == Init /\ [][NextWrites]_vars

\* the writing handlers while the clock runs, every name and description the
\* same
NextClock ==
    \/ ModalCompletion(CustomIds, {<<"a">>}, {"d1"}, {12}, now..MaxTime)
    \/ \E f \in At("insert") : add_tag_insert(f)
    \/ \E f \in At("save") : edit_tag_save(f)
    \/ delete_find(<<"a">>)
    \/ \E f \in At("remove") : delete_remove(f)

SpecClock == Init /\ [][NextClock]_vars

\* several helpers create, view and delete tags, within one tick of the clock
NextUsers ==
    \/ \E n \in Names : view(n)
    \/ ModalCompletion({AstroNewTag}, Names, Descriptions, Users, {now})
    \/ \E f \in At("insert") : add_tag_insert(f)
    \/ \E n \in Names : delete_find(n)
    \/ \E f \in At("remove") : delete_remove(f)

SpecUsers == Init /\ [][NextUsers]_vars

(***************************************************************************)
(* The read commands over large collections: list's paging and the         *)
(* autocomplete's cap need more tags than the page size and the limit.     *)
(***************************************************************************)
\* a collection of n tags, as n creations with distinct names leave it
QueryStore(n, off) ==
    [i \in 1..n |-> NewTag(i, NameOf(off + i), str(7), "d1", 0)]

InitQuery ==
    /\ \E n \in 0..MaxQueryTags, off \in 0..MaxOffset :
            /\ store = QueryStore(n, off)
            /\ nextId = n + 1
    /\ now = 0
    /\ last = Reply("none", None, "none", None)
    /\ edited = {}
    /\ tasks = EmptyBag

NextQuery ==
    \/ list
    \/ \E q \in Queries : tag_name_autocomplete(q)

SpecQuery == InitQuery /\ [][NextQuery]_vars

(***************************************************************************)
(* Create submissions with their history kept: tasks[h] is handler h with  *)
(* its position, its ctx, its outcome once it has answered, and the        *)
(* handlers that ran while it did.                                         *)
(***************************************************************************)
IdleTasks == [h \in 1..NumTasks |-> [pc |-> "idle"]]

Active(h) == tasks[h].pc \in {"check", "insert"}

\* modal_completion with custom id astro_new_tag arrives: add_tag(ctx) starts
add_tag_start(h, ctx) ==
    /\ tasks[h].pc = "idle"
    /\ tasks' = [g \in 1..NumTasks |->
                    IF g = h
                    THEN [pc |-> "check", ctx |-> ctx,
                          during |-> {k \in 1..NumTasks : Active(k)}]
                    ELSE IF Active(g)
                    THEN [tasks[g] EXCEPT !.during = @ \cup {h}]
                    ELSE tasks[g]]
    /\ UNCHANGED <<store, nextId, now, last, edited>>

\* await Tag.find_one(Tag.name == tag_name).exists(), and the reply if it does
add_tag_check_traced(h) ==
    /\ tasks[h].pc = "check"
    /\ LET tag_name == tasks[h].ctx.responses.tag_name IN
       IF add_tag_exists(tag_name)
       THEN /\ tasks' = [tasks EXCEPT ![h] =
                            [pc |-> "done", ctx |-> tasks[h].ctx,
                             during |-> tasks[h].during,
                             outcome |-> "AlreadyExists"]]
            /\ last' = Reply("add_tag", tag_name, "AlreadyExists", tasks[h].ctx)
       ELSE /\ tasks' = [tasks EXCEPT ![h].pc = "insert"]
            /\ UNCHANGED last
    /\ UNCHANGED <<store, nextId, now, edited>>

\* await Tag(...).insert(), and the confirmation
add_tag_insert_traced(h) ==
    /\ tasks[h].pc = "insert"
    /\ LET tag == [add_tag_document(tasks[h].ctx, now) EXCEPT !.id = nextId]
           outcome == IF Accepts(tag) THEN "ok" ELSE "DuplicateKeyError"
       IN  /\ IF Accepts(tag)
              THEN /\ store' = insert(tag)
                   /\ nextId' = nextId + 1
              ELSE UNCHANGED <<store, nextId>>
           /\ tasks' = [tasks EXCEPT ![h] =
                           [pc |-> "done", ctx |-> tasks[h].ctx,
                            during |-> tasks[h].during, outcome |-> outcome]]
           /\ last' = Reply("add_tag", tag.name, outcome, tasks[h].ctx)
    /\ UNCHANGED <<now, edited>>

InitConc ==
    /\ \E n \in 0..1 :
            /\ store = QueryStore(n, 0)
            /\ nextId = n + 1
    /\ now = 0
    /\ last = Reply("none", None, "none", None)
    /\ edited = {}
    /\ tasks = IdleTasks

NextConc ==
    \/ \E h \in 1..NumTasks, ctx \in Contexts({AstroNewTag}, Names, Descriptions, Users) : add_tag_start(h, ctx)
    \/ \E h \in 1..NumTasks : add_tag_check_traced(h)
    \/ \E h \in 1..NumTasks : add_tag_insert_traced(h)

SpecConc == InitConc /\ [][NextConc]_vars

(***************************************************************************)
(* Properties.                                                             *)
(***************************************************************************)
Indices == 1..Len(store)

\* no tag of the collection st is named n
AbsentIn(st, n) == \A i \in 1..Len(st) : st[i].name # n

\* no tag is named n
Absent(n) == AbsentIn(store, n)

\* the tag with this id, as an Optional, read off the collection
TagWithId(st, id) ==
    IF \E i \in 1..Len(st) : st[i].id = id
    THEN Some(st[CHOOSE i \in 1..Len(st) : st[i].id = id])
    ELSE None

Succeeded(outcome) == outcome \in {"ok", "ok-renamed"}

\* in this step a handler goes from its read on to its write
Proceeds(pc) ==
    \E f \in BagToSet(tasks') : f.pc = pc /\ tasks' = Suspend(f)

\* the locals of the handler that just suspended
Suspended == CHOOSE f \in BagToSet(tasks') : tasks' = Suspend(f)

\* in this step a handler answers from its read, having written nothing
AnswersAtRead(op) == last'.op = op /\ tasks' = tasks

\* C1: in every reachable state no two existing tags have the same name.
NamesUnique ==
    \A i, j \in Indices : i # j => store[i].name # store[j].name

\* a rename to the name of another existing tag was attempted
NamesUniqueWitness ==
    /\ last.op = "edit_tag"
    /\ last.outcome = "DuplicateKeyError"
    /\ Len(store) = 2

\* C2: a create submission that finds a tag with its name answers
\* AlreadyExists, inserts nothing and leaves every tag as it was; it goes on to
\* its insert only when it found no such tag.
CreateDuplicateFails ==
    [][/\ (AnswersAtRead("add_tag") /\ ~Absent(last'.name))
             => /\ last'.outcome = "AlreadyExists"
                /\ store' = store
                /\ nextId' = nextId
       /\ Proceeds("insert") => Absent(Suspended.tag.name)]_vars

\* a create of the name of a tag that was edited before was refused while
\* another tag exists and another handler is suspended
CreateDuplicateFailsWitness ==
    /\ last.op = "add_tag"
    /\ last.outcome = "AlreadyExists"
    /\ Len(store) = 2
    /\ Suspensions > 0
    /\ \E i \in Indices : /\ store[i].name = last.name
                          /\ store[i].last_edited_at # None

\* C3: an edit submission for the id of a tag that no longer exists answers
\* NotFound and leaves the collection unchanged; it goes on to its save only
\* when its id resolved.
EditMissingFails ==
    [][\A id \in 1..(nextId - 1) :
          /\ (/\ AnswersAtRead("edit_tag")
              /\ last'.out = AstroEditTagPrefix \o ObjectIdStr(id)
              /\ TagWithId(store, id) = None)
                => /\ last'.outcome = "NotFound"
                   /\ store' = store
          /\ (/\ Proceeds("save")
              /\ Suspended.custom_id = AstroEditTagPrefix \o ObjectIdStr(id))
                => /\ TagWithId(store, id) # None
                   /\ Suspended.tag.id = id]_vars

\* the edit of a deleted tag was submitted under the name of a remaining tag
EditMissingFailsWitness ==
    /\ last.op = "edit_tag"
    /\ last.outcome = "NotFound"
    /\ \E id \in 1..(nextId - 1) :
          last.out = AstroEditTagPrefix \o ObjectIdStr(id)
    /\ ~Absent(last.name)

\* C4: a successful edit sets last_edited_at of the edited tag, to the time its
\* handler read, and keeps its id, created_at and author_id; a tag has no
\* last_edited_at exactly when it was never edited since its creation.
EditedStep(id) ==
    /\ last'.op = "edit_tag"
    /\ Succeeded(last'.outcome)
    /\ last'.out = AstroEditTagPrefix \o ObjectIdStr(id)

EditTimestamps ==
    /\ [](\A i \in Indices : store[i].last_edited_at = None <=> store[i].id \notin edited)
    /\ [][\A id \in 1..(nextId - 1) :
            EditedStep(id)
            => LET before == TagWithId(store, id)
                   after == TagWithId(store', id)
               IN  /\ after # None
                   /\ after[1].last_edited_at # None
                   /\ \E f \in At("save") :
                         /\ tasks' = Return(f)
                         /\ after[1] = f.tag
                   /\ before # None
                         => /\ after[1].created_at = before[1].created_at
                            /\ after[1].author_id = before[1].author_id
                            /\ Len(store') = Len(store)]_vars

\* a tag created at time 0 was edited by a handler that read it at time 1,
\* after a second tag had been created
EditTimestampsWitness ==
    /\ last.op = "edit_tag"
    /\ Succeeded(last.outcome)
    /\ nextId = 3
    /\ \E i \in Indices :
          /\ store[i].created_at = 0
          /\ store[i].last_edited_at = Some(1)

\* the decimal strings of the user ids
UserIdString(u) == IF u = 7 THEN <<"7">> ELSE <<"1", "2">>

\* C5: right after a successful create of name n with description d, view n
\* answers d and the stored author_id is the submitting user's id.
CreateThenView ==
    (last.op = "add_tag" /\ last.outcome = "ok")
    => /\ view_reply(last.name) = <<"ok", last.out.responses.tag_description>>
       /\ \E i \in Indices :
             /\ store[i].name = last.name
             /\ store[i].author_id = UserIdString(last.out.author)

\* a tag was created beside one whose name differs only in case and whose
\* description and author differ
CreateThenViewWitness ==
    /\ last.op = "add_tag"
    /\ last.outcome = "ok"
    /\ Len(store) = 2
    /\ store[2].name = last.name
    /\ store[1].description # store[2].description
    /\ store[1].author_id # store[2].author_id
    /\ store[2].author_id = <<"1", "2">>

\* C6: after a successful delete of n no tag is named n; a name that no tag has
\* stays so until a successful create of it or an edit to it; and view, info,
\* edit and delete of n, looking n up while no tag is named n, answer NotFound
\* and change nothing.
DeleteThenNotFound ==
    [][/\ (last'.op = "delete" /\ last'.outcome = "ok") => AbsentIn(store', last'.name)
       /\ \A n \in Names :
             (Absent(n) /\ ~AbsentIn(store', n))
             => \/ last'.op = "add_tag" /\ last'.outcome = "ok" /\ last'.name = n
                \/ last'.op = "edit_tag" /\ Succeeded(last'.outcome) /\ last'.name = n
       /\ (/\ \/ last'.op \in {"view", "info", "edit"}
              \/ AnswersAtRead("delete")
           /\ Absent(last'.name))
             => /\ last'.outcome = "NotFound"
                /\ store' = store
       /\ Proceeds("remove") => ~Absent(Suspended.tag_name)]_vars

\* name contains q as a substring when case is ignored
MatchesCI(name, q) ==
    \E k \in 0..(Len(name) - Len(q)) :
        \A j \in 1..Len(q) : LowerChar(name[k + j]) = LowerChar(q[j])

Matching(q) == {i \in Indices : MatchesCI(store[i].name, q)}

\* C7: for a non-empty query the autocomplete returns only tags whose name
\* contains the query case-insensitively, none twice, and min(25, matching tags)
\* of them; for the empty query it returns min(25, tags) tags.
AutocompleteResult ==
    last.op = "autocomplete"
    => LET q == last.name
           choices == last.out
       IN  /\ \A c \in 1..Len(choices) :
                 /\ \E i \in Indices : store[i].name = choices[c].name
                 /\ choices[c].value = choices[c].name
                 /\ q # <<>> => MatchesCI(choices[c].name, q)
           /\ \A c, d \in 1..Len(choices) : c # d => choices[c].name # choices[d].name
           /\ Len(choices) = IF q = <<>>
                             THEN Min(25, Len(store))
                             ELSE Min(25, Cardinality(Matching(q)))

\* a query in upper case matched more than 25 tags, some only by ignoring case
AutocompleteResultWitness ==
    /\ last.op = "autocomplete"
    /\ last.name = <<"A">>
    /\ Cardinality(Matching(last.name)) > 25
    /\ Len(last.out) = 25
    /\ \E c \in 1..Len(last.out) : \A k \in 1..Len(last.out[c].name) :
          last.out[c].name[k] # "A"

RECURSIVE Flatten(_)
Flatten(pages) ==
    IF pages = <<>> THEN <<>> ELSE Head(pages).names \o Flatten(Tail(pages))

\* C8: list makes ceil(n/10) pages of 1 to 10 entries, only the last one with
\* fewer than 10, which together hold every tag once, in order, numbered 1..n;
\* one page is sent directly, any other number of pages through the paginator.
ListPages ==
    last.op = "list"
    => LET n == Len(store)
           pages == last.out
       IN  /\ Len(pages) = (n + 9) \div 10
           /\ \A k \in 1..Len(pages) :
                 /\ Len(pages[k].names) >= 1
                 /\ Len(pages[k].names) <= 10
                 /\ k < Len(pages) => Len(pages[k].names) = 10
           /\ Flatten(pages) = [i \in 1..n |-> <<i, store[i].name>>]
           /\ last.outcome = IF Len(pages) = 1 THEN "send" ELSE "paginator"

\* 21 or more tags were listed on three pages, the last one not full
ListPagesWitness ==
    /\ last.op = "list"
    /\ Len(store) > 20
    /\ Len(last.out) = 3
    /\ Len(last.out[3].names) < 10
    /\ last.outcome = "paginator"

\* C9: of two create submissions with the same name handled concurrently, at
\* most one inserts and confirms, and the other answers AlreadyExists.
ConcurrentCreate ==
    \A h1, h2 \in 1..NumTasks :
        (/\ h1 # h2
         /\ tasks[h1].pc = "done"
         /\ tasks[h2].pc = "done"
         /\ h2 \in tasks[h1].during
         /\ tasks[h1].ctx.responses.tag_name = tasks[h2].ctx.responses.tag_name)
        => \/ tasks[h1].outcome = "ok" /\ tasks[h2].outcome = "AlreadyExists"
           \/ tasks[h1].outcome = "AlreadyExists" /\ tasks[h2].outcome = "ok"
           \/ tasks[h1].outcome = "AlreadyExists" /\ tasks[h2].outcome = "AlreadyExists"

\* C10: the collection changes only in a successful create submission (custom
\* id astro_new_tag), a successful edit submission (custom id starting with
\* astro_edit_tag) or a successful delete.
StoreChangesOnlyBy ==
    [][store' # store
          => \/ /\ last'.op = "add_tag"
                /\ last'.outcome = "ok"
                /\ last'.out.custom_id = AstroNewTag
             \/ /\ last'.op = "edit_tag"
                /\ Succeeded(last'.outcome)
                /\ startswith(last'.out, AstroEditTag)
             \/ /\ last'.op = "delete"
                /\ last'.outcome = "ok"]_vars

\* a modal completion with another custom id was ignored while tags exist
StoreChangesOnlyByWitness ==
    /\ last.op = "modal"
    /\ last.outcome = "ignored"
    /\ last.out = OtherModal
    /\ Len(store) = 2

====
